---- MODULE Spec2Model ----
(***************************************************************************)
(* First rounds of the signing (frost/sign) and key-generation/refresh     *)
(* protocols: src/protocols/frost/sign/round1.go.                          *)
(*                                                                         *)
(* A nil pointer, nil slice or unset field is the empty sequence <<>>; a   *)
(* set scalar/struct-valued field is the one-element sequence <<v>>.       *)
(***************************************************************************)
EXTENDS Integers, Sequences, FiniteSets, TLC

\* ------------------------------------------------------------- bounds

\* Largest threshold t a session is created with (t ranges over 0..MaxThreshold).
MaxThreshold == 1

\* The outcomes the random scalar source is made to yield (a subset of the field).
SampledScalars == {0, 3}

\* The byte values the random byte source is made to yield.
SampledBytes == {0, 1}

\* The digests of messages to sign.
Digests == {<<10>>, <<11>>}

\* ------------------------------------------------ curve (pkg/math/curve)

\* The group is the order-7 subgroup of the units modulo 29, generated by 16;
\* a point is a residue, the identity point is 1.
Order == 7

Modulus == 29

Generator == 16

Scalars == 0 .. (Order - 1)

RECURSIVE Pow(_, _, _)
Pow(b, e, m) == IF e = 0 THEN 1 % m ELSE (b * Pow(b, e - 1, m)) % m

\* curve.NewScalar(): the zero scalar.
NewScalar == 0

\* curve.NewScalarRandom(): the values a draw can return.
NewScalarRandom == SampledScalars \cap Scalars

\* curve.NewIdentityPoint().ScalarBaseMult(s) = s.G
ScalarBaseMult(s) == Pow(Generator, s % Order, Modulus)

\* curve.NewScalar().SetBytes(b): b read as a big-endian integer, reduced.
RECURSIVE SetBytes(_)
SetBytes(b) ==
    IF b = <<>> THEN 0
    ELSE (256 * SetBytes(SubSeq(b, 1, Len(b) - 1)) + b[Len(b)]) % Order

\* ------------------------------------------------------ party (pkg/party)

PartyIDs == {"A", "B", "C"}

\* []byte(id)
IDBytes(id) ==
    CASE id = "A" -> <<65>>
      [] id = "B" -> <<66>>
      [] id = "C" -> <<67>>

\* ------------------------------------------- polynomial (pkg/math/polynomial)

\* polynomial.NewPolynomial(degree, constant): coefficient 0 is the constant,
\* coefficients 1..degree are the drawn scalars.
NewPolynomial(degree, constant, drawn) ==
    <<constant>> \o SubSeq(drawn, 1, degree)

\* poly.Evaluate(x), by Horner's rule from the highest coefficient down.
RECURSIVE Horner(_, _, _)
Horner(poly, x, i) ==
    IF i = Len(poly) THEN poly[i] % Order
    ELSE (Horner(poly, x, i + 1) * x + poly[i]) % Order

Evaluate(poly, x) == IF poly = <<>> THEN 0 ELSE Horner(poly, x, 1)

\* polynomial.NewPolynomialExponent(poly): F(X) = f(X).G, coefficient by coefficient.
NewPolynomialExponent(poly) ==
    [i \in 1 .. Len(poly) |-> ScalarBaseMult(poly[i])]

\* --------------------------------------------------- paillier (pkg/paillier)

\* paillier.NewSecretKey(): the key pairs a draw can return.
NewSecretKey == {[p |-> 5, q |-> 7], [p |-> 7, q |-> 11]}

\* sk.PublicKey()
PublicKey(sk) == [N |-> sk.p * sk.q]

\* The (r, lambda) a draw inside GeneratePedersen can return.
PedersenDraws == {[r |-> 2, lambda |-> 3]}

\* sk.GeneratePedersen(): T = r^2 mod N, S = T^lambda mod N.
GeneratePedersen(sk, d) ==
    LET N == sk.p * sk.q
        T == (d.r * d.r) % N
    IN  [ped |-> [N |-> N, S |-> Pow(T, d.lambda, N), T |-> T],
         lambda |-> d.lambda]

\* ------------------------------------------------------------ hash (pkg/hash)

\* params.SecBytes
SecBytes == 1

ByteStrings == [1 .. SecBytes -> SampledBytes]

ZeroBytes == [i \in 1 .. SecBytes |-> 0]

\* The digest of (data, id, decommitment) under an ideal, collision-free hash:
\* the digest is the term that was hashed.
Digest(id, data, decommitment) == <<"digest", data, id, decommitment>>

\* H.Commit(id, data...): nonce is <<>> when drawing the decommitment fails.
Commit(id, data, nonce) ==
    IF nonce = <<>>
    THEN [commitment |-> <<>>, decommitment |-> <<>>, err |-> "commit"]
    ELSE [commitment |-> Digest(id, data, nonce[1]),
          decommitment |-> nonce[1], err |-> "nil"]

\* H.Decommit(id, commitment, decommitment, data...)
Decommit(id, commitment, decommitment, data) ==
    /\ commitment # <<>>
    /\ decommitment # <<>>
    /\ commitment = Digest(id, data, decommitment)

\* ------------------------------------------------------------------ state

VARIABLES
    proto,      \* which protocol this session runs: "sign" or "refresh"
    sign,       \* the signing round1: [M]
    out,        \* the outbound channel handed to the signing round1's Finalize
    panicked,   \* the signing round1's Finalize has panicked
    S,          \* the session round.S: [Threshold, Secret: [Paillier]]
    round,      \* the key-generation/refresh round1
    tape,       \* the random draws the last GenerateMessages consumed (<<>>: none yet)
    ret,        \* what the last call returned: [op, from, content, repeat, msgs, err]
    next,       \* the round the last refresh Finalize returned (<<>>: none yet)
    pc,         \* the caller's position in the session
    wire        \* the messages the caller has broadcast

vars == <<proto, sign, out, panicked, S, round, tape, ret, next, pc, wire>>

Thresholds == 0 .. MaxThreshold

\* localParty, as far as round 1 writes it.
NewLocalParty ==
    [A |-> <<>>, Pedersen |-> <<>>, Paillier |-> <<>>, shareReceived |-> <<>>,
     polyExp |-> <<>>, rho |-> <<>>, commitment |-> <<>>]

\* The refresh round1 as the session hands it to its caller.
NewRound1(keygen, selfID) ==
    [keygen |-> keygen, SelfID |-> selfID, thisParty |-> NewLocalParty,
     decommitment |-> <<>>, lambda |-> <<>>, poly |-> <<>>, schnorrRand |-> <<>>]

NewSession(t) == [Threshold |-> t, Secret |-> [Paillier |-> <<>>]]

NoCall ==
    [op |-> "none", from |-> "nil", content |-> "nil", repeat |-> FALSE,
     msgs |-> <<>>, err |-> "nil"]

\* The payloads a transport can hand to ProcessMessage, and who they come from.
Contents == {"First", "Refresh1", "Refresh2", "Malformed"}

Senders == PartyIDs \cup {"X"}

\* ------------------------------------------------- refresh round1: the steps

\* The draws one GenerateMessages call makes, in the order it makes them.
\* rho = <<>>: rand.Read fails; nonce = <<>>: Commit fails.
Tapes(t, keygen) ==
    { [schnorr |-> a, sk |-> sk, ped |-> d, constant |-> c, coeffs |-> f,
       rho |-> rho, nonce |-> n] :
        a \in [1 .. t + 1 -> NewScalarRandom],
        sk \in NewSecretKey,
        d \in PedersenDraws,
        c \in IF keygen THEN {<<x>> : x \in NewScalarRandom} ELSE {<<>>},
        f \in [1 .. t -> NewScalarRandom],
        rho \in {<<>>} \cup {<<b>> : b \in ByteStrings},
        n \in {<<>>} \cup {<<b>> : b \in ByteStrings} }

\* A tape whose unused draws are left out: no nonce is drawn once rho failed.
UsedTapes(t, keygen) ==
    { tp \in Tapes(t, keygen) : tp.rho = <<>> => tp.nonce = <<>> }

\* SchnorrStep that makes Threshold entries instead of Threshold + 1.
SchnorrStep_OneShort(r, s, tp) ==
    [r EXCEPT !.schnorrRand = [i \in 1 .. s.Threshold |-> tp.schnorr[i]],
              !.thisParty.A =
                  [i \in 1 .. s.Threshold |-> ScalarBaseMult(tp.schnorr[i])]]

\* generate Schnorr randomness and commitments
SchnorrStep(r, s, tp) ==
    [r EXCEPT !.schnorrRand = [i \in 1 .. s.Threshold + 1 |-> tp.schnorr[i]],
              !.thisParty.A =
                  [i \in 1 .. s.Threshold + 1 |-> ScalarBaseMult(tp.schnorr[i])]]

\* generate Paillier and Pedersen: the round's part
PaillierRoundStep(r, tp) ==
    LET g == GeneratePedersen(tp.sk, tp.ped)
    IN  [r EXCEPT !.thisParty.Pedersen = <<g.ped>>,
                  !.lambda = <<g.lambda>>,
                  !.thisParty.Paillier = <<PublicKey(tp.sk)>>]

\* PaillierSessionStep that never stores the secret key in the session.
PaillierSessionStep_NotStored(s, tp) == s

\* generate Paillier and Pedersen: round.S.Secret.Paillier = skPaillier
PaillierSessionStep(s, tp) ==
    [s EXCEPT !.Secret.Paillier = <<tp.sk>>]

\* PolyConstant without its keygen branch: the constant is left at zero.
PolyConstant_NoKeygenBranch(keygen, tp) == NewScalar

\* if keygen then constant = secret, otherwise it is 0
PolyConstant(keygen, tp) ==
    IF keygen THEN tp.constant[1] ELSE NewScalar

\* PolyStep that asks for a polynomial of degree Threshold - 1.
PolyStep_DegreeOffByOne(r, s, tp) ==
    LET poly == NewPolynomial(s.Threshold - 1, PolyConstant(r.keygen, tp), tp.coeffs)
        selfScalar == SetBytes(IDBytes(r.SelfID))
    IN  [r EXCEPT !.poly = poly,
                  !.thisParty.shareReceived = <<Evaluate(poly, selfScalar)>>,
                  !.thisParty.polyExp = NewPolynomialExponent(poly)]

\* PolyStep that exponentiates the polynomial the round held before this call.
PolyStep_ExponentOfOldPoly(r, s, tp) ==
    LET poly == NewPolynomial(s.Threshold, PolyConstant(r.keygen, tp), tp.coeffs)
        selfScalar == SetBytes(IDBytes(r.SelfID))
    IN  [r EXCEPT !.poly = poly,
                  !.thisParty.shareReceived = <<Evaluate(poly, selfScalar)>>,
                  !.thisParty.polyExp = NewPolynomialExponent(r.poly)]

\* PolyStep that evaluates the polynomial at the zero scalar, not at the own ID.
PolyStep_ShareAtZero(r, s, tp) ==
    LET poly == NewPolynomial(s.Threshold, PolyConstant(r.keygen, tp), tp.coeffs)
    IN  [r EXCEPT !.poly = poly,
                  !.thisParty.shareReceived = <<Evaluate(poly, NewScalar)>>,
                  !.thisParty.polyExp = NewPolynomialExponent(poly)]

\* sample f, evaluate it at the own ID, set F = f.G
PolyStep(r, s, tp) ==
    LET poly == NewPolynomial(s.Threshold, PolyConstant(r.keygen, tp), tp.coeffs)
        selfScalar == SetBytes(IDBytes(r.SelfID))
    IN  [r EXCEPT !.poly = poly,
                  !.thisParty.shareReceived = <<Evaluate(poly, selfScalar)>>,
                  !.thisParty.polyExp = NewPolynomialExponent(poly)]

\* Sample rho: the buffer is allocated zeroed, then filled unless Read fails.
RhoStep(r, tp) ==
    [r EXCEPT !.thisParty.rho = IF tp.rho = <<>> THEN ZeroBytes ELSE tp.rho[1]]

\* The tuple committed to: rho, polyExp, A, Pedersen.
CommitData(r) ==
    <<r.thisParty.rho, r.thisParty.polyExp, r.thisParty.A, r.thisParty.Pedersen>>

\* CommitStep that leaves the Schnorr points A out of the committed tuple.
CommitStep_WithoutA(r, tp) ==
    LET c == Commit(r.SelfID,
                    <<r.thisParty.rho, r.thisParty.polyExp, r.thisParty.Pedersen>>,
                    tp.nonce)
    IN  [r EXCEPT !.thisParty.commitment = c.commitment,
                  !.decommitment = c.decommitment]

\* commit to data in message 2
CommitStep(r, tp) ==
    LET c == Commit(r.SelfID, CommitData(r), tp.nonce)
    IN  [r EXCEPT !.thisParty.commitment = c.commitment,
                  !.decommitment = c.decommitment]

\* Refresh1Message sent without the reliable-broadcast class.
Refresh1Message_NotReliable(r) ==
    [Type |-> "TypeRefresh1", From |-> r.SelfID, Broadcast |-> "None",
     Refresh1 |-> [Hash |-> r.thisParty.commitment]]

\* Refresh1Message that also carries rho and the decommitment.
Refresh1Message_WithOpening(r) ==
    [Type |-> "TypeRefresh1", From |-> r.SelfID, Broadcast |-> "Reliable",
     Refresh1 |-> [Hash |-> r.thisParty.commitment, Rho |-> r.thisParty.rho,
                   Decommitment |-> r.decommitment]]

\* Refresh1Message that also carries the own share.
Refresh1Message_WithShare(r) ==
    [Type |-> "TypeRefresh1", From |-> r.SelfID, Broadcast |-> "Reliable",
     Refresh1 |-> [Hash |-> r.thisParty.commitment,
                   Share |-> r.thisParty.shareReceived]]

\* The message GenerateMessages returns.
Refresh1Message(r) ==
    [Type |-> "TypeRefresh1", From |-> r.SelfID, Broadcast |-> "Reliable",
     Refresh1 |-> [Hash |-> r.thisParty.commitment]]

\* What GenerateMessages returns on success.
Returned(r) == <<Refresh1Message(r)>>

\* ReturnedOnError that hands back the message together with the error.
ReturnedOnError_WithMessage(r) == <<Refresh1Message(r)>>

\* What GenerateMessages returns when a step failed.
ReturnedOnError(r) == <<>>

\* GenerateMessages, run on round r and session s with the draws tp:
\* the round and session it leaves, and what it returns.
GenerateMessagesOn(r, s, tp) ==
    LET r1 == SchnorrStep(r, s, tp)
        r2 == PaillierRoundStep(r1, tp)
        s2 == PaillierSessionStep(s, tp)
        r3 == PolyStep(r2, s2, tp)
        r4 == RhoStep(r3, tp)
        r5 == CommitStep(r4, tp)
    IN  IF tp.rho = <<>>
        THEN [round |-> r4, S |-> s2, msgs |-> ReturnedOnError(r4),
              err |-> "sample rho"]
        ELSE IF tp.nonce = <<>>
        THEN [round |-> r5, S |-> s2, msgs |-> ReturnedOnError(r5),
              err |-> "commit"]
        ELSE [round |-> r5, S |-> s2, msgs |-> Returned(r5), err |-> "nil"]

\* RefreshProcessMessageOn that refuses every message of the first round.
RefreshProcessMessageOn_Refuses(r, from, content) ==
    [round |-> r, err |-> "unexpected message"]

\* ProcessMessage of the refresh round1: no messages are expected, return nil.
RefreshProcessMessageOn(r, from, content) == [round |-> r, err |-> "nil"]

\* round2{round, nil}: the round1 it embeds is a pointer to this round1.
Round2 == [type |-> "round2", round1 |-> "this", second |-> <<>>]

\* RefreshFinalizeOn that hands the round1 itself back as the next round.
RefreshFinalizeOn_Reenters(r) ==
    [next |-> <<[type |-> "round1", round1 |-> "this", second |-> <<>>]>>,
     round |-> r, err |-> "nil"]

\* RefreshFinalizeOn that hands round2 a copy of the round1's fields.
RefreshFinalizeOn_HandsCopy(r) ==
    [next |-> <<[type |-> "round2", round1 |-> "copy", copy |-> r,
                 second |-> <<>>]>>,
     round |-> r, err |-> "nil"]

\* Finalize of the refresh round1: &round2{round, nil}, nil
RefreshFinalizeOn(r) ==
    [next |-> <<Round2>>, round |-> r, err |-> "nil"]

\* MessageType that declares the Refresh1 type.
RefreshMessageType_Refresh1 == "TypeRefresh1"

\* MessageType of the refresh round1.
RefreshMessageType == "TypeInvalid"

\* --------------------------------------------------- signing round1: the steps

\* SignProcessMessageOn that rejects a malformed payload.
SignProcessMessageOn_Validates(sg, from, content) ==
    [sign |-> sg, err |-> IF content = "Malformed" THEN "malformed" ELSE "nil"]

\* ProcessMessage of the signing round1: return nil.
SignProcessMessageOn(sg, from, content) == [sign |-> sg, err |-> "nil"]

\* Finalize of the signing round1: panic("unimplemented").
SignFinalizeOn(sg, ch) ==
    [sign |-> sg, out |-> ch, next |-> <<>>, err |-> "nil",
     panic |-> <<"unimplemented">>]

\* MessageContent of the signing round1: &message.First{}
SignMessageContent == "First"

\* ----------------------------------------------------------------- calls

Init ==
    /\ proto \in {"sign", "refresh"}
    /\ sign \in IF proto = "sign" THEN {[M |-> m] : m \in Digests} ELSE {[M |-> <<>>]}
    /\ out = <<>>
    /\ panicked = FALSE
    /\ S \in IF proto = "refresh" THEN {NewSession(t) : t \in Thresholds}
                                  ELSE {NewSession(0)}
    /\ round \in IF proto = "refresh"
                 THEN {NewRound1(k, id) : k \in BOOLEAN, id \in PartyIDs}
                 ELSE {NewRound1(FALSE, "A")}
    /\ tape = <<>>
    /\ ret = NoCall
    /\ next = <<>>
    /\ pc = "round1"
    /\ wire = <<>>

\* One call of the signing round1's ProcessMessage.
SignProcessMessageCall(from, content) ==
    LET res == SignProcessMessageOn(sign, from, content)
    IN  /\ proto = "sign"
        /\ ~panicked
        /\ sign' = res.sign
        /\ ret' = [op |-> "ProcessMessage", from |-> from, content |-> content,
                   repeat |-> (ret.op = "ProcessMessage" /\ ret.from = from),
                   msgs |-> <<>>, err |-> res.err]
        /\ UNCHANGED <<proto, out, panicked, S, round, tape, next>>

\* One call of the signing round1's Finalize.
SignFinalizeCall ==
    LET res == SignFinalizeOn(sign, out)
    IN  /\ proto = "sign"
        /\ ~panicked
        /\ sign' = res.sign
        /\ out' = res.out
        /\ panicked' = (res.panic # <<>>)
        /\ ret' = [op |-> "Finalize", from |-> "nil", content |-> "nil",
                   repeat |-> FALSE, msgs |-> <<>>,
                   err |-> IF res.panic # <<>> THEN "panic" ELSE res.err]
        /\ UNCHANGED <<proto, S, round, tape, next>>

\* One call of the refresh round1's ProcessMessage.
RefreshProcessMessageCall(from, content) ==
    LET res == RefreshProcessMessageOn(round, from, content)
    IN  /\ proto = "refresh"
        /\ round' = res.round
        /\ ret' = [op |-> "ProcessMessage", from |-> from, content |-> content,
                   repeat |-> (ret.op = "ProcessMessage" /\ ret.from = from),
                   msgs |-> <<>>, err |-> res.err]
        /\ UNCHANGED <<proto, sign, out, panicked, S, tape, next>>

\* One call of GenerateMessages, with the draws tp.
GenerateMessagesCall(tp) ==
    LET res == GenerateMessagesOn(round, S, tp)
    IN  /\ proto = "refresh"
        /\ round' = res.round
        /\ S' = res.S
        /\ tape' = <<tp>>
        /\ ret' = [op |-> "GenerateMessages", from |-> "nil", content |-> "nil",
                   repeat |-> FALSE, msgs |-> res.msgs, err |-> res.err]
        /\ UNCHANGED <<proto, sign, out, panicked, next>>

\* One call of the refresh round1's Finalize.
RefreshFinalizeCall ==
    LET res == RefreshFinalizeOn(round)
    IN  /\ proto = "refresh"
        /\ round' = res.round
        /\ next' = res.next
        /\ ret' = [op |-> "Finalize", from |-> "nil", content |-> "nil",
                   repeat |-> FALSE, msgs |-> <<>>, err |-> res.err]
        /\ UNCHANGED <<proto, sign, out, panicked, S, tape>>

\* --------------------------------------------- Spec: one session of a party
\* The caller drives the round as the round contract asks: inbound messages are
\* handed to ProcessMessage while the round is current, GenerateMessages runs
\* once and its messages are broadcast, a failure aborts the session, and
\* Finalize runs once, after which the next round is current.

\* The caller hands an inbound message to the signing round1.
SignProcessMessage ==
    /\ pc = "round1"
    /\ \E from \in Senders, content \in Contents :
           SignProcessMessageCall(from, content)
    /\ UNCHANGED <<pc, wire>>

\* The caller finalizes the signing round1.
SignFinalize ==
    /\ pc = "round1"
    /\ SignFinalizeCall
    /\ pc' = IF panicked' THEN "crashed"
             ELSE IF ret'.err # "nil" THEN "aborted" ELSE "round2"
    /\ wire' = wire \o out'

\* The caller hands an inbound message to the refresh round1.
RefreshProcessMessage ==
    /\ pc \in {"round1", "sent"}
    /\ \E from \in Senders, content \in Contents :
           RefreshProcessMessageCall(from, content)
    /\ UNCHANGED <<pc, wire>>

\* The caller runs GenerateMessages and broadcasts what it returns.
GenerateMessages ==
    /\ pc = "round1"
    /\ \E tp \in UsedTapes(S.Threshold, round.keygen) : GenerateMessagesCall(tp)
    /\ pc' = IF ret'.err # "nil" THEN "aborted" ELSE "sent"
    /\ wire' = wire \o ret'.msgs

\* The caller finalizes the refresh round1.
RefreshFinalize ==
    /\ pc = "sent"
    /\ RefreshFinalizeCall
    /\ pc' = IF ret'.err # "nil" THEN "aborted" ELSE "round2"
    /\ UNCHANGED wire

Next ==
    \/ SignProcessMessage
    \/ SignFinalize
    \/ RefreshProcessMessage
    \/ GenerateMessages
    \/ RefreshFinalize

Spec == Init /\ [][Next]_vars

\* ------------------------------ SpecDispatch: a session with the shape filter
\* The caller compares each inbound message with the shape the current round
\* declares and hands it to ProcessMessage only when it matches.

\* The message variants that carry protocol data.
RealVariants == {"Refresh1", "Refresh2"}

\* The type tag of an inbound message: a message that is not of a refresh
\* variant has the zero tag.
MessageTypeOf(content) ==
    CASE content = "Refresh1" -> "TypeRefresh1"
      [] content = "Refresh2" -> "TypeRefresh2"
      [] OTHER -> "TypeInvalid"

\* Whether the inbound message matches what the current round declares.
MatchesDeclared(content) ==
    IF proto = "sign" THEN content = SignMessageContent
    ELSE MessageTypeOf(content) = RefreshMessageType

\* The caller refuses an inbound message; no method of the round is called.
Reject(from, content) ==
    /\ ret' = [op |-> "Rejected", from |-> from, content |-> content,
               repeat |-> FALSE, msgs |-> <<>>, err |-> "wrong variant"]
    /\ UNCHANGED <<proto, sign, out, panicked, S, round, tape, next>>

\* An inbound message arrives for the signing round1.
SignDeliver ==
    /\ pc = "round1"
    /\ proto = "sign"
    /\ \E from \in Senders, content \in Contents :
           IF MatchesDeclared(content)
           THEN SignProcessMessageCall(from, content)
           ELSE Reject(from, content)
    /\ UNCHANGED <<pc, wire>>

\* An inbound message arrives for the refresh round1.
RefreshDeliver ==
    /\ pc \in {"round1", "sent"}
    /\ proto = "refresh"
    /\ \E from \in Senders, content \in Contents :
           IF MatchesDeclared(content)
           THEN RefreshProcessMessageCall(from, content)
           ELSE Reject(from, content)
    /\ UNCHANGED <<pc, wire>>

NextDispatch ==
    \/ SignDeliver
    \/ SignFinalize
    \/ RefreshDeliver
    \/ GenerateMessages
    \/ RefreshFinalize

SpecDispatch == Init /\ [][NextDispatch]_vars

\* ------------------------------------ SpecReuse: one round1 object, any calls
\* The caller holds one refresh round1 and calls GenerateMessages and Finalize
\* on it in any order and any number of times, as the methods allow: neither
\* has a guard on earlier calls.

\* The largest threshold of a reused round.
MaxReuseThreshold == 0

InitReuse ==
    /\ proto = "refresh"
    /\ sign = [M |-> <<>>]
    /\ out = <<>>
    /\ panicked = FALSE
    /\ S \in {NewSession(t) : t \in 0 .. MaxReuseThreshold}
    /\ round \in {NewRound1(k, "A") : k \in BOOLEAN}
    /\ tape = <<>>
    /\ ret = NoCall
    /\ next = <<>>
    /\ pc = "round1"
    /\ wire = <<>>

\* GenerateMessages is called on the round, whatever was called before.
ReuseGenerateMessages ==
    /\ \E tp \in UsedTapes(S.Threshold, round.keygen) : GenerateMessagesCall(tp)
    /\ UNCHANGED <<pc, wire>>

\* Finalize is called on the round, whatever was called before.
ReuseFinalize ==
    /\ RefreshFinalizeCall
    /\ UNCHANGED <<pc, wire>>

NextReuse ==
    \/ ReuseGenerateMessages
    \/ ReuseFinalize

SpecReuse == InitReuse /\ [][NextReuse]_vars

\* ----------------------------------------------------------------- claims

\* What a round-1 call other than the caller's bookkeeping can touch.
roundVars == <<sign, out, panicked, S, round, tape, next, wire>>

\* A value that has the form of a commitment digest.
IsDigest(h) == h # <<>> /\ Len(h) = 4 /\ h[1] = "digest"

\* C1: a successful GenerateMessages returns exactly one message; it has type
\* Refresh1, comes from the round's SelfID, is broadcast reliably, and its
\* payload's only field is the hash stored in thisParty.commitment.
C1_OneRefresh1Message ==
    (proto = "refresh" /\ ret.op = "GenerateMessages" /\ ret.err = "nil") =>
        /\ Len(ret.msgs) = 1
        /\ DOMAIN ret.msgs[1] = {"Type", "From", "Broadcast", "Refresh1"}
        /\ ret.msgs[1].Type = "TypeRefresh1"
        /\ ret.msgs[1].From = round.SelfID
        /\ ret.msgs[1].Broadcast = "Reliable"
        /\ DOMAIN ret.msgs[1].Refresh1 = {"Hash"}
        /\ ret.msgs[1].Refresh1.Hash = round.thisParty.commitment
        /\ round.thisParty.commitment # <<>>

\* C1's case: a key-generation GenerateMessages with threshold 1 has succeeded.
C1_Witness ==
    /\ proto = "refresh"
    /\ ret.op = "GenerateMessages"
    /\ ret.err = "nil"
    /\ round.keygen
    /\ S.Threshold = 1
    /\ Len(ret.msgs) = 1

\* C2: commit before reveal. Every message the round has returned or the
\* caller has broadcast carries a payload with the single field Hash, holding
\* a digest; rho, the polynomial and its exponent, the Schnorr scalars and
\* points, the Pedersen parameters, lambda, the Paillier secret key and the
\* decommitment are in no field of it and are still held in the round's (and
\* session's) local state.
C2_CommitBeforeReveal ==
    proto = "refresh" =>
        /\ \A m \in {wire[i] : i \in 1 .. Len(wire)}
                 \cup {ret.msgs[i] : i \in 1 .. Len(ret.msgs)} :
               /\ DOMAIN m = {"Type", "From", "Broadcast", "Refresh1"}
               /\ DOMAIN m.Refresh1 = {"Hash"}
               /\ IsDigest(m.Refresh1.Hash)
        /\ wire # <<>> =>
               /\ round.thisParty.rho # <<>>
               /\ round.poly # <<>>
               /\ round.thisParty.polyExp # <<>>
               /\ round.schnorrRand # <<>>
               /\ round.thisParty.A # <<>>
               /\ round.thisParty.Pedersen # <<>>
               /\ round.lambda # <<>>
               /\ S.Secret.Paillier # <<>>
               /\ round.decommitment # <<>>

\* C2's case: the round's message has been broadcast and the opening is held back.
C2_Witness ==
    /\ proto = "refresh"
    /\ Len(wire) = 1
    /\ round.decommitment # <<>>
    /\ round.thisParty.rho # <<>>

\* C3: after GenerateMessages the constant term of round.poly is zero when
\* keygen is false, and is the scalar drawn for it in that call when keygen is
\* true.
C3_ModePolicy ==
    (proto = "refresh" /\ tape # <<>>) =>
        /\ round.poly # <<>>
        /\ ~round.keygen => (round.poly[1] = 0 /\ tape[1].constant = <<>>)
        /\ round.keygen => (/\ tape[1].constant # <<>>
                            /\ round.poly[1] = tape[1].constant[1]
                            /\ round.poly[1] \in NewScalarRandom)

\* C3's case: a key-generation run whose drawn constant is not zero.
C3_Witness ==
    /\ proto = "refresh"
    /\ tape # <<>>
    /\ round.keygen
    /\ round.poly[1] # 0

\* C4: round isolation. A ProcessMessage call on a round-1 instance, with any
\* sender and payload, returns no error and changes neither the round nor the
\* session nor anything emitted.
C4_ProcessMessageIsNoOp ==
    [][ret'.op = "ProcessMessage" =>
           (ret'.err = "nil" /\ UNCHANGED roundVars)]_vars

\* C4's case: the signing round1 has been handed a malformed payload.
C4_Witness ==
    /\ proto = "sign"
    /\ ret.op = "ProcessMessage"
    /\ ret.content = "Malformed"
    /\ ret.err = "nil"

\* C5: Finalize on a signing round1 returns without faulting, having written
\* to the outbound channel one broadcast with the two nonce commitments, and
\* the session is in the next round.
C5_SignFinalizeBroadcastsNonces ==
    (proto = "sign" /\ ret.op = "Finalize") =>
        /\ ~panicked
        /\ ret.err = "nil"
        /\ Len(out) = 1
        /\ Len(out[1]) = 2
        /\ pc = "round2"

\* C6 as stated: the second of two ProcessMessage calls with the same sender
\* on the same round is refused with DuplicateSender.
C6_DuplicateSenderRejected ==
    (ret.op = "ProcessMessage" /\ ret.repeat) => ret.err = "DuplicateSender"

\* C6, amended: on a round-1 instance the second of two ProcessMessage calls
\* with the same sender is accepted like the first: it returns nil and does
\* not change the round's state.
C6_DuplicateSenderAccepted ==
    [][(ret'.op = "ProcessMessage" /\ ret'.repeat) =>
           (ret'.err = "nil" /\ UNCHANGED roundVars)]_vars

\* C6's case: the refresh round1 has just been handed a second message by
\* the sender of the message before it.
C6_Witness ==
    /\ proto = "refresh"
    /\ ret.op = "ProcessMessage"
    /\ ret.repeat
    /\ ret.from \in PartyIDs

\* C7 as stated: no round-1 operation changes any field of round.S.
C7_SessionReadOnly == [][S' = S]_vars

\* C7, amended: no round-1 operation changes round.S.Threshold; ProcessMessage
\* and Finalize change no field of round.S; GenerateMessages writes one field,
\* round.S.Secret.Paillier, setting it to the secret key it has just generated.
C7_OnlyPaillierSecretWritten ==
    [][/\ S'.Threshold = S.Threshold
       /\ ret'.op = "GenerateMessages" => S'.Secret.Paillier = <<tape'[1].sk>>
       /\ ret'.op # "GenerateMessages" => S' = S]_vars

\* C7's case: GenerateMessages has stored the Paillier secret key in round.S.
C7_Witness ==
    /\ proto = "refresh"
    /\ ret.op = "GenerateMessages"
    /\ S.Secret.Paillier # <<>>
    /\ S.Secret.Paillier = <<tape[1].sk>>

C9_FailureIsFatal ==
    proto = "refresh" =>
        /\ (tape # <<>> /\ (tape[1].rho = <<>> \/ tape[1].nonce = <<>>)) =>
               (ret.op = "GenerateMessages" /\ ret.err # "nil")
        /\ (ret.op = "GenerateMessages" /\ ret.err # "nil") =>
               /\ ret.msgs = <<>>
               /\ wire = <<>>
               /\ next = <<>>
               /\ pc = "aborted"

\* C9's case: a GenerateMessages call in which drawing rho failed.
C9_Witness ==
    /\ proto = "refresh"
    /\ ret.op = "GenerateMessages"
    /\ tape[1].rho = <<>>
    /\ ret.err = "sample rho"

\* The points of the group.
Points == {ScalarBaseMult(x) : x \in Scalars}

\* The tuples that differ from the committed tuple d in exactly one element.
Altered(d) ==
    ( {<<rho, d[2], d[3], d[4]>> : rho \in ByteStrings}
      \cup {<<d[1], [d[2] EXCEPT ![i] = pt], d[3], d[4]>> :
                i \in DOMAIN d[2], pt \in Points}
      \cup {<<d[1], d[2], [d[3] EXCEPT ![i] = pt], d[4]>> :
                i \in DOMAIN d[3], pt \in Points}
      \cup {<<d[1], d[2], d[3], <<ped>>>> :
                ped \in {[d[4][1] EXCEPT !.N = @ + 1],
                         [d[4][1] EXCEPT !.S = @ + 1],
                         [d[4][1] EXCEPT !.T = @ + 1]}} ) \ {d}

\* C10: the commitment of round 1 opens with the retained decommitment, the
\* own SelfID and the tuple (rho, polyExp, A, Pedersen) the round holds, and
\* does not open when one element of the tuple, or the party ID, is altered.
C10_CommitmentRoundTrip ==
    (proto = "refresh" /\ round.thisParty.commitment # <<>>) =>
        LET c == round.thisParty.commitment
            d == round.decommitment
            v == CommitData(round)
        IN  /\ Decommit(round.SelfID, c, d, v)
            /\ \A w \in Altered(v) : ~Decommit(round.SelfID, c, d, w)
            /\ \A id \in PartyIDs \ {round.SelfID} : ~Decommit(id, c, d, v)

\* C10's case: a threshold-1 round holds a commitment and its decommitment.
C10_Witness ==
    /\ proto = "refresh"
    /\ S.Threshold = 1
    /\ round.thisParty.commitment # <<>>
    /\ round.decommitment # <<>>
    /\ Cardinality(Altered(CommitData(round))) > 4

\* The constant term GenerateMessages supplied to NewPolynomial with the draws tp.
SuppliedConstant(keygen, tp) == IF keygen THEN tp.constant[1] ELSE 0

\* C11: the polynomial sampled in round 1 has exactly Threshold + 1
\* coefficients, and evaluating it at 0 returns the constant term that was
\* supplied to it.
C11_PolynomialCorrectness ==
    (proto = "refresh" /\ tape # <<>>) =>
        /\ Len(round.poly) = S.Threshold + 1
        /\ Evaluate(round.poly, 0) = SuppliedConstant(round.keygen, tape[1])

\* C11's case: a threshold-1 key-generation polynomial with a non-zero
\* constant and a non-zero leading coefficient.
C11_Witness ==
    /\ proto = "refresh"
    /\ tape # <<>>
    /\ S.Threshold = 1
    /\ round.keygen
    /\ round.poly = <<3, 3>>

\* C12: Feldman binding. After GenerateMessages, thisParty.polyExp has one
\* point per coefficient of round.poly, and point i is coefficient i times the
\* base point.
C12_FeldmanBinding ==
    (proto = "refresh" /\ tape # <<>>) =>
        /\ round.poly # <<>>
        /\ Len(round.thisParty.polyExp) = Len(round.poly)
        /\ \A i \in 1 .. Len(round.poly) :
               round.thisParty.polyExp[i] = Pow(Generator, round.poly[i], Modulus)

\* C12's case: a threshold-1 polynomial with a non-zero coefficient has been
\* exponentiated.
C12_Witness ==
    /\ proto = "refresh"
    /\ tape # <<>>
    /\ Len(round.thisParty.polyExp) = 2
    /\ round.poly[2] = 3
    /\ round.thisParty.polyExp[2] # 1

\* The inverse of a non-zero scalar.
Inverse(a) == Pow(a % Order, Order - 2, Order)

\* The value at 0 of the line through (x1, y1) and (x2, y2), by Lagrange's formula.
Interpolate2(x1, y1, x2, y2) ==
    ( y1 * x2 * Inverse((x2 - x1) + Order)
      + y2 * x1 * Inverse((x1 - x2) + Order) ) % Order

\* The scalar of a party ID.
IDScalar(id) == SetBytes(IDBytes(id))

\* The share of party id: the round's own share is the one it stored.
ShareOf(id) ==
    IF id = round.SelfID THEN round.thisParty.shareReceived[1]
    ELSE Evaluate(round.poly, IDScalar(id))

\* C13: with threshold 1 and the three parties A, B, C, interpolating at 0
\* any two of the three (ID, share) pairs of a party's round-1 polynomial
\* gives that polynomial's constant term.
C13_ShareReconstruction ==
    (proto = "refresh" /\ tape # <<>> /\ S.Threshold = 1) =>
        /\ \A i, j \in PartyIDs : i # j => IDScalar(i) # IDScalar(j)
        /\ \A i, j \in PartyIDs :
               i # j => Interpolate2(IDScalar(i), ShareOf(i),
                                     IDScalar(j), ShareOf(j)) = round.poly[1]

\* C13's case: a threshold-1 polynomial with non-zero constant and slope, so
\* that the three shares differ from the constant.
C13_Witness ==
    /\ proto = "refresh"
    /\ tape # <<>>
    /\ S.Threshold = 1
    /\ round.poly = <<3, 3>>
    /\ \A id \in PartyIDs : ShareOf(id) # round.poly[1]

\* The round1 state a round2 reads through its first field: the round1 object
\* itself when the field is the pointer, the copied fields otherwise.
Round1SeenBy(r2) == IF r2.round1 = "this" THEN round ELSE r2.copy

\* C14 (as stated): the round2 returned by Finalize keeps no reference back to
\* the round1 instance: no later change to round1 is observed through round2.
C14_Round2Isolated ==
    [][(next # <<>> /\ next' # <<>>) =>
           Round1SeenBy(next[1])' = Round1SeenBy(next[1])]_vars

\* C14 (amended): the round2 returned by Finalize is the pointer to the round1
\* object and a nil second field, so that what round2 sees of round1 is, in
\* every state, round1 as it currently is, later changes included.
C14_Round2SharesRound1 ==
    next # <<>> =>
        /\ next[1] = Round2
        /\ next[1].second = <<>>
        /\ Round1SeenBy(next[1]) = round

\* C14's case: after the hand-off GenerateMessages ran again on round1 and
\* replaced the values round2 reads.
C14_Witness ==
    /\ next # <<>>
    /\ ret.op = "GenerateMessages"
    /\ ret.err = "nil"
    /\ round.thisParty.commitment # <<>>

\* C15: after GenerateMessages, schnorrRand and thisParty.A both have exactly
\* Threshold + 1 entries, as many as poly has coefficients, and entry l of A is
\* entry l of schnorrRand times the base point.
C15_SchnorrPairing ==
    (proto = "refresh" /\ tape # <<>>) =>
        /\ Len(round.schnorrRand) = S.Threshold + 1
        /\ Len(round.thisParty.A) = S.Threshold + 1
        /\ Len(round.poly) = S.Threshold + 1
        /\ \A l \in 1 .. S.Threshold + 1 :
               round.thisParty.A[l] = Pow(Generator, round.schnorrRand[l], Modulus)

\* C15's case: a threshold-1 round whose two Schnorr scalars differ.
C15_Witness ==
    /\ proto = "refresh"
    /\ tape # <<>>
    /\ S.Threshold = 1
    /\ round.schnorrRand = <<3, 0>>
    /\ round.thisParty.A = <<Pow(Generator, 3, Modulus), 1>>

\* The sum of poly[i] * x^(i-1) over the coefficients from i on.
PolySum(poly, x, i) ==
    IF i > Len(poly) THEN 0
    ELSE LET term[k \in i .. Len(poly)] ==
                 IF k = i THEN poly[k] * Pow(x, k - 1, Order)
                 ELSE term[k - 1] + poly[k] * Pow(x, k - 1, Order)
         IN  term[Len(poly)] % Order

\* Whether the message m has the header fields and, as its whole payload, the
\* commitment hash: nothing else of the round's state is in it.
OnlyHashInMessage(m) ==
    /\ DOMAIN m = {"Type", "From", "Broadcast", "Refresh1"}
    /\ DOMAIN m.Refresh1 = {"Hash"}
    /\ m.Refresh1.Hash = round.thisParty.commitment

\* C16: after GenerateMessages, thisParty.shareReceived is the polynomial's
\* value at the scalar of the own SelfID, and it is in no message of round 1.
C16_SelfShare ==
    (proto = "refresh" /\ tape # <<>>) =>
        /\ round.thisParty.shareReceived =
               <<PolySum(round.poly, SetBytes(IDBytes(round.SelfID)), 1)>>
        /\ \A i \in 1 .. Len(ret.msgs) : OnlyHashInMessage(ret.msgs[i])
        /\ \A i \in 1 .. Len(wire) : OnlyHashInMessage(wire[i])

\* C16's case: the round-1 message was sent and the share of party B differs
\* from the polynomial's constant.
C16_Witness ==
    /\ proto = "refresh"
    /\ tape # <<>>
    /\ wire # <<>>
    /\ round.SelfID = "B"
    /\ round.poly = <<3, 3>>
    /\ round.thisParty.shareReceived = <<5>>

\* C17: the signing round1 declares the dummy First content and the refresh
\* round1 declares the Invalid message type; no variant that carries protocol
\* data matches either, and every inbound message of such a variant is
\* rejected without reaching ProcessMessage.
C17_FirstRoundShape ==
    /\ SignMessageContent = "First"
    /\ RefreshMessageType = "TypeInvalid"
    /\ \A c \in RealVariants :
           c # SignMessageContent /\ MessageTypeOf(c) # RefreshMessageType
    /\ ret.op = "ProcessMessage" => ret.content \notin RealVariants
    /\ (ret.op = "ProcessMessage" /\ proto = "sign") => ret.content = "First"

\* C17's case: a Refresh1 message arrived at the refresh round1 and was
\* rejected.
C17_Witness ==
    /\ proto = "refresh"
    /\ ret.op = "Rejected"
    /\ ret.content = "Refresh1"

\* Whether GenerateMessages has set everything round 2 reads from round1.
Complete(r) ==
    /\ r.thisParty.commitment # <<>>
    /\ r.decommitment # <<>>
    /\ r.poly # <<>>
    /\ r.schnorrRand # <<>>
    /\ r.lambda # <<>>

\* C18: every round2 that Finalize of the refresh round1 returns carries a
\* round1 in which commitment, decommitment, poly, schnorrRand and lambda are
\* all set.
C18_NoIncompleteHandOff ==
    (proto = "refresh" /\ next # <<>>) => Complete(Round1SeenBy(next[1]))

\* C19: whenever thisParty.commitment is set, after any sequence of
\* GenerateMessages calls, it and the decommitment open to the current rho,
\* polyExp, A and Pedersen parameters.
C19_CommitmentConsistent ==
    (proto = "refresh" /\ round.thisParty.commitment # <<>>) =>
        Decommit(round.SelfID, round.thisParty.commitment, round.decommitment,
                 CommitData(round))

====
